---- MODULE Spec2Model ----
(***************************************************************************)
(* A model of the commit-calendar generator: the GitHub and GitLab         *)
(* collectors, the heatmap aggregation, the calendar-data generator and    *)
(* the main orchestration loop of github_calendar.py, with the tables of   *)
(* config.py.                                                              *)
(*                                                                         *)
(* A commit record is [repo, date, source]; a date is <<year, month, day>> *)
(* (datetime.date), ordered as Python orders dates; a bucket               *)
(* (defaultdict(list)) is a function from its date keys to the sequence of *)
(* records appended under each key.                                        *)
(***************************************************************************)
EXTENDS Integers, Sequences, FiniteSets, TLC

(***************************************************************************)
(* Bounds of the model.                                                    *)
(***************************************************************************)
\* longest record list of one day drawn as an input of convert_to_heatmap
MaxDayLen == 3
\* largest max_count drawn as an input of calculate_level
MaxCount == 100
\* most repositories the organization lists
MaxRepos == 2
\* most commits one repository query yields
MaxRepoCommits == 2
\* most projects the group lists
MaxProjects == 2
\* most push events the events query returns
MaxEvents == 2
\* most commits one project's commit list holds
MaxProjectCommits == 1
\* length of the roster
NumPeople == 3
\* most pieces of a document given to the converter
MaxDocLen == 3
\* most candidate files in the directory
MaxFiles == 3

VARIABLES
    entry,              \* the entry point under analysis
    \* a call of convert_to_heatmap or of calculate_level
    pure_pc, in_daily_commits, out_heatmap_data, in_count, in_max_count, out_level,
    \* a call of generate_neatocal_data
    in_heatmap_data, out_neatocal_data,
    \* a call of normalize_project_name
    in_repo_name, out_project,
    \* collect_github_commits
    gh_pc, repos, pending, results, gh_daily, total_commits, repos_with_commits,
    \* collect_gitlab_commits and collect_gitlab_commits_legacy
    GITLAB_AVAILABLE, gl_pc, projects, events, events_done, gl_daily, commit_count,
    raised_at, gl_result, lg_pc, lg_projects, lg_daily, lg_result,
    \* main
    USERS, main_pc, user_i, all_commits, user_calendars, tabbed_html, log,
    \* convert_to_standalone.py: a conversion and a conversion of its output
    sa_pc, sa_html, sa_css, sa_js, sa_out, sa_again,
    \* merge_calendars.py: main
    mg_pc, mg_files, mg_i, mg_calendars, mg_output, mg_log

pure_vars == <<pure_pc, in_daily_commits, out_heatmap_data, in_count, in_max_count,
               out_level, in_heatmap_data, out_neatocal_data, in_repo_name, out_project>>
gh_vars == <<gh_pc, repos, pending, results, gh_daily, total_commits, repos_with_commits>>
gl_vars == <<GITLAB_AVAILABLE, gl_pc, projects, events, events_done, gl_daily, commit_count,
             raised_at, gl_result, lg_pc, lg_projects, lg_daily, lg_result>>
main_vars == <<USERS, main_pc, user_i, all_commits, user_calendars, tabbed_html, log>>
sa_vars == <<sa_pc, sa_html, sa_css, sa_js, sa_out, sa_again>>
mg_vars == <<mg_pc, mg_files, mg_i, mg_calendars, mg_output, mg_log>>
\* the state of the two utility scripts
tool_vars == <<sa_vars, mg_vars>>
vars == <<entry, pure_vars, gh_vars, gl_vars, main_vars, tool_vars>>

(***************************************************************************)
(* config.py                                                               *)
(***************************************************************************)
PROJECT_MAPPING ==
    [r \in {"topaz-stb-test-system", "athena-runner-ott", "beyond_xray_services",
            "netMeterUplusHome", "NetAnalyzer", "NetAnalyzerLGHV",
            "web-speed-service-dione", "EvoService"} |->
        CASE r = "topaz-stb-test-system"   -> "topaz"
          [] r = "athena-runner-ott"       -> "ott"
          [] r = "beyond_xray_services"    -> "xray"
          [] r = "netMeterUplusHome"       -> "netmeter"
          [] r = "NetAnalyzer"             -> "netmeter"
          [] r = "NetAnalyzerLGHV"         -> "netmeter"
          [] r = "web-speed-service-dione" -> "ott"
          [] r = "EvoService"              -> "EvoRev2"]

PROJECT_COLORS ==
    [p \in {"topaz", "EvoRev2", "vos", "ott", "netmeter", "xray"} |->
        CASE p = "topaz"    -> "#ef4444"
          [] p = "EvoRev2"  -> "#3b82f6"
          [] p = "vos"      -> "#22c55e"
          [] p = "ott"      -> "#f59e0b"
          [] p = "netmeter" -> "#8b5cf6"
          [] p = "xray"     -> "#06b6d4"]

DEFAULT_COLOR == "#6b7280"

\* START_DATE.date() and END_DATE.date()
START_DATE == <<2025, 1, 1>>
END_DATE == <<2025, 12, 31>>

(***************************************************************************)
(* Dates                                                                   *)
(***************************************************************************)
\* datetime.date comparison: year, then month, then day
DateLess(a, b) ==
    \/ a[1] < b[1]
    \/ a[1] = b[1] /\ a[2] < b[2]
    \/ a[1] = b[1] /\ a[2] = b[2] /\ a[3] < b[3]

DateLeq(a, b) == a = b \/ DateLess(a, b)

Pad2(n) == IF n < 10 THEN "0" \o ToString(n) ELSE ToString(n)

\* date.strftime('%Y-%m-%d') for a four-digit year
strftime(d) == ToString(d[1]) \o "-" \o Pad2(d[2]) \o "-" \o Pad2(d[3])

(***************************************************************************)
(* Stage 2: the heatmap transform                                          *)
(***************************************************************************)
\* a lookup without the default: PROJECT_MAPPING.get(repo_name)
normalize_project_name_no_default(repo_name) ==
    IF repo_name \in DOMAIN PROJECT_MAPPING THEN PROJECT_MAPPING[repo_name]
    ELSE "None"

normalize_project_name(repo_name) ==
    IF repo_name \in DOMAIN PROJECT_MAPPING THEN PROJECT_MAPPING[repo_name]
    ELSE repo_name

\* ratio <= num/den for ratio = count / max_count. The quotient is a binary64
\* float; 1/4, 1/2 and 3/4 are binary64 values and rounding is monotone, so for
\* counts below 2^53 the float comparison decides as the exact one does.
RatioLeq(count, max_count, num, den) == count * den <= num * max_count

\* calculate_level with the upper bounds of the levels exclusive
calculate_level_exclusive(count, max_count) ==
    IF count = 0 THEN 0
    ELSE IF count * 4 < max_count THEN 1
    ELSE IF count * 2 < max_count THEN 2
    ELSE IF count * 4 < 3 * max_count THEN 3
    ELSE 4

calculate_level(count, max_count) ==
    IF count = 0 THEN 0
    ELSE IF RatioLeq(count, max_count, 1, 4) THEN 1
    ELSE IF RatioLeq(count, max_count, 1, 2) THEN 2
    ELSE IF RatioLeq(count, max_count, 3, 4) THEN 3
    ELSE 4

\* the keys of project_counts in insertion order: the labels of the day's
\* records in order of first occurrence
RECURSIVE FirstSeen(_)
FirstSeen(commits) ==
    IF commits = <<>> THEN <<>>
    ELSE LET front == FirstSeen(SubSeq(commits, 1, Len(commits) - 1))
             p == normalize_project_name(commits[Len(commits)].repo)
         IN  IF \E i \in 1..Len(front) : front[i] = p THEN front
             ELSE Append(front, p)

\* project_counts[project] once the day's records have been counted
ProjectCount(commits, project) ==
    Cardinality({i \in 1..Len(commits) :
                    normalize_project_name(commits[i].repo) = project})

\* MainProject with the records counted per repository name, not per label
MainProject_ungrouped(commits) ==
    LET RawCount(r) == Cardinality({i \in 1..Len(commits) : commits[i].repo = r})
        best == CHOOSE i \in 1..Len(commits) :
                    /\ \A j \in 1..Len(commits) :
                          RawCount(commits[j].repo) <= RawCount(commits[i].repo)
                    /\ \A j \in 1..(i - 1) :
                          RawCount(commits[j].repo) < RawCount(commits[i].repo)
    IN  normalize_project_name(commits[best].repo)

\* MainProject where the last of the keys with the highest count is taken
MainProject_last_seen(commits) ==
    LET keys == FirstSeen(commits)
        best == CHOOSE i \in 1..Len(keys) :
                    /\ \A j \in 1..Len(keys) :
                          ProjectCount(commits, keys[j]) <= ProjectCount(commits, keys[i])
                    /\ \A j \in (i + 1)..Len(keys) :
                          ProjectCount(commits, keys[j]) < ProjectCount(commits, keys[i])
    IN  keys[best]

\* max(project_counts, key=project_counts.get): the first key, in insertion
\* order, whose count no other key exceeds
MainProject(commits) ==
    LET keys == FirstSeen(commits)
        best == CHOOSE i \in 1..Len(keys) :
                    /\ \A j \in 1..Len(keys) :
                          ProjectCount(commits, keys[j]) <= ProjectCount(commits, keys[i])
                    /\ \A j \in 1..(i - 1) :
                          ProjectCount(commits, keys[j]) < ProjectCount(commits, keys[i])
    IN  keys[best]

\* sum(project_counts.values())
RECURSIVE SumCounts(_, _)
SumCounts(commits, keys) ==
    IF keys = <<>> THEN 0
    ELSE ProjectCount(commits, Head(keys)) + SumCounts(commits, Tail(keys))

DateSummary(daily_commits) ==
    [d \in DOMAIN daily_commits |->
        [project |-> MainProject(daily_commits[d]),
         count   |-> SumCounts(daily_commits[d], FirstSeen(daily_commits[d]))]]

\* the sum of the day counts in place of their maximum
MaxOf_sum(S) ==
    LET RECURSIVE Sum(_)
        Sum(T) == IF T = {} THEN 0
                  ELSE LET n == CHOOSE m \in T : TRUE IN n + Sum(T \ {n})
    IN  Sum(S)

MaxOf(S) == CHOOSE m \in S : \A n \in S : n <= m

\* the dates ordered by the day of the month alone
RECURSIVE SortedDates_by_day(_)
SortedDates_by_day(S) ==
    IF S = {} THEN <<>>
    ELSE LET least == CHOOSE d \in S : \A e \in S : d[3] <= e[3]
         IN  <<least>> \o SortedDates_by_day(S \ {least})

\* sorted(date_summary.items()): the keys are distinct, so the order is that
\* of the dates
RECURSIVE SortedDates(_)
SortedDates(S) ==
    IF S = {} THEN <<>>
    ELSE LET least == CHOOSE d \in S : \A e \in S : DateLeq(d, e)
         IN  <<least>> \o SortedDates(S \ {least})

convert_to_heatmap(daily_commits) ==
    IF DOMAIN daily_commits = {} THEN <<>>
    ELSE LET date_summary == DateSummary(daily_commits)
             max_count == MaxOf({date_summary[d].count : d \in DOMAIN date_summary})
             order == SortedDates(DOMAIN date_summary)
         IN  [i \in 1..Len(order) |->
                [date    |-> strftime(order[i]),
                 count   |-> date_summary[order[i]].count,
                 project |-> date_summary[order[i]].project,
                 level   |-> calculate_level(date_summary[order[i]].count, max_count)]]

(***************************************************************************)
(* Buckets                                                                 *)
(***************************************************************************)
\* defaultdict(list)()
EmptyBucket == [d \in {} |-> <<>>]

\* daily_commits[commit['date']].append(commit)
BucketAppend(daily, commit) ==
    IF commit.date \in DOMAIN daily
    THEN [daily EXCEPT ![commit.date] = Append(@, commit)]
    ELSE [d \in DOMAIN daily \cup {commit.date} |->
            IF d = commit.date THEN <<commit>> ELSE daily[d]]

RECURSIVE BucketAppendAll(_, _)
BucketAppendAll(daily, commits) ==
    IF commits = <<>> THEN daily
    ELSE BucketAppendAll(BucketAppend(daily, Head(commits)), Tail(commits))

\* the merge with all_commits[date] = commits in place of the extend
ExtendAll_overwrite(all, bucket) ==
    [d \in DOMAIN all \cup DOMAIN bucket |->
        IF d \in DOMAIN bucket THEN bucket[d] ELSE all[d]]

\* for date, commits in bucket.items(): all_commits[date].extend(commits)
ExtendAll(all, bucket) ==
    [d \in DOMAIN all \cup DOMAIN bucket |->
        (IF d \in DOMAIN all THEN all[d] ELSE <<>>) \o
        (IF d \in DOMAIN bucket THEN bucket[d] ELSE <<>>)]

\* the number of records of a bucket
BucketSize(daily) ==
    LET RECURSIVE Sum(_)
        Sum(S) == IF S = {} THEN 0
                  ELSE LET d == CHOOSE e \in S : TRUE
                       IN  Len(daily[d]) + Sum(S \ {d})
    IN  Sum(DOMAIN daily)

(***************************************************************************)
(* Stage 1: collect_github_commits                                         *)
(***************************************************************************)
NoRaise == -1

\* fetch_repo_commits(repo): the records appended before the query raised, all
\* of them when it did not. raises_after is the number of commits iterated
\* before repo.get_commits or the iteration raises (NoRaise: never).
fetch_repo_commits(repo, raises_after) ==
    LET n == IF raises_after = NoRaise THEN Len(repo.commits) ELSE raises_after
    IN  <<repo.name,
          [i \in 1..n |-> [repo |-> repo.name, date |-> repo.commits[i],
                           source |-> "github"]]>>

\* MergeFuture with the day's list assigned, not appended to
MergeFuture_overwrite(daily, result) ==
    LET dates == {result[2][i].date : i \in 1..Len(result[2])}
    IN  [d \in DOMAIN daily \cup dates |->
            IF d \in dates THEN SelectSeq(result[2], LAMBDA c : c.date = d)
            ELSE daily[d]]

\* the futures loop body for one completed future (lines 91-96)
MergeFuture(daily, result) ==
    IF result[2] # <<>> THEN BucketAppendAll(daily, result[2]) ELSE daily

\* the repositories the fake organization can list
RepoName(i) ==
    CASE i = 1 -> "NetAnalyzer"
      [] i = 2 -> "vos"
      [] i = 3 -> "NetAnalyzerLGHV"
      [] OTHER -> "repo" \o ToString(i)

GitHubDates == {<<2025, 1, 31>>, <<2025, 2, 1>>}

SeqsUpTo(S, n) == UNION {[1..k -> S] : k \in 0..n}

\* repo.get_commits(author, since, until) lists a repository's commits from the
\* newest to the oldest
NewestFirst(S, n) ==
    {c \in SeqsUpTo(S, n) : \A j \in 1..(Len(c) - 1) : DateLeq(c[j + 1], c[j])}

RepoWorlds ==
    IF entry = "main"
    THEN {<<>>, <<[name |-> "vos", commits |-> <<<<2025, 1, 31>>>>]>>,
          <<[name |-> "NetAnalyzer", commits |-> <<<<2025, 1, 31>>>>],
            [name |-> "vos", commits |-> <<<<2025, 1, 31>>>>]>>}
    ELSE UNION {{[i \in 1..k |-> [name |-> RepoName(i), commits |-> c[i]]] :
                    c \in [1..k -> NewestFirst(GitHubDates, MaxRepoCommits)]} :
                 k \in 0..MaxRepos}

\* g.get_organization(org_name): returns, or raises out of the collector
GH_GetOrganization ==
    /\ gh_pc = "get_organization"
    /\ \/ gh_pc' = "get_repos"
       \/ gh_pc' = "raised"
    /\ UNCHANGED <<repos, pending, results, gh_daily, total_commits, repos_with_commits>>
    /\ UNCHANGED <<entry, tool_vars, pure_vars, gl_vars, main_vars>>

\* repos = list(org.get_repos(type='all')), then one future per repository
GH_GetRepos ==
    /\ gh_pc = "get_repos"
    /\ \/ \E w \in RepoWorlds :
             /\ repos' = w
             /\ pending' = 1..Len(w)
             /\ gh_pc' = "as_completed"
       \/ /\ gh_pc' = "raised"
          /\ UNCHANGED <<repos, pending>>
    /\ UNCHANGED <<results, gh_daily, total_commits, repos_with_commits>>
    /\ UNCHANGED <<entry, tool_vars, pure_vars, gl_vars, main_vars>>

\* one iteration of `for future in as_completed(futures)`: any future that has
\* not been yielded yet completes next; its query raised after k commits
\* (NoRaise: not at all). results keeps what each completed future returned and
\* whether its query raised.
GH_AsCompleted ==
    /\ gh_pc = "as_completed"
    /\ \E i \in pending : \E k \in {NoRaise} \cup (0..Len(repos[i].commits)) :
          LET result == fetch_repo_commits(repos[i], k)
          IN  /\ pending' = pending \ {i}
              /\ results' = [j \in DOMAIN results \cup {i} |->
                                IF j = i THEN [commits |-> result[2], raised |-> k # NoRaise]
                                ELSE results[j]]
              /\ gh_daily' = MergeFuture(gh_daily, result)
              /\ total_commits' = total_commits + Len(result[2])
              /\ repos_with_commits' =
                    IF result[2] # <<>>
                    THEN Append(repos_with_commits, <<result[1], Len(result[2])>>)
                    ELSE repos_with_commits
    /\ UNCHANGED <<gh_pc, repos>>
    /\ UNCHANGED <<entry, tool_vars, pure_vars, gl_vars, main_vars>>

\* return daily_commits
GH_Return ==
    /\ gh_pc = "as_completed"
    /\ pending = {}
    /\ gh_pc' = "returned"
    /\ UNCHANGED <<repos, pending, results, gh_daily, total_commits, repos_with_commits>>
    /\ UNCHANGED <<entry, tool_vars, pure_vars, gl_vars, main_vars>>

GitHubIdle ==
    /\ repos = <<>>
    /\ pending = {}
    /\ results = EmptyBucket
    /\ gh_daily = EmptyBucket
    /\ total_commits = 0
    /\ repos_with_commits = <<>>

(***************************************************************************)
(* Stage 1: collect_gitlab_commits and collect_gitlab_commits_legacy       *)
(***************************************************************************)
\* The fake GitLab server. A project is [id, name]. A push event is
\* [project_id, created_at, push_data]. created_at is [iso, date, zone]: an
\* ISO-8601 timestamp of that date and zone suffix when iso, any other text
\* when not. push_data is [kind, commit_count]: kind "absent" (no attribute,
\* None, or no commit_count field), "count" (the field holds commit_count) or
\* "null" (the field holds None).
ProjectOf(i) ==
    CASE i = 1 -> [id |-> 1, name |-> "EvoService"]
      [] i = 2 -> [id |-> 2, name |-> "vos"]
      [] OTHER -> [id |-> i, name |-> "project" \o ToString(i)]

ProjectWorlds ==
    IF entry = "main" THEN {[i \in 1..1 |-> ProjectOf(i)]}
    ELSE {[i \in 1..k |-> ProjectOf(i)] : k \in 0..MaxProjects}

\* a project id no group lists
ForeignProjectId == 0

Timestamp(d, z) == [iso |-> TRUE, date |-> d, zone |-> z]

Malformed == [iso |-> FALSE, date |-> <<0, 0, 0>>, zone |-> ""]

Timestamps ==
    {Timestamp(<<2025, 1, 31>>, "Z"), Timestamp(<<2025, 12, 31>>, "+09:00"),
     Timestamp(<<2026, 1, 1>>, "Z")}

Absent == [kind |-> "absent", commit_count |-> 0]

Null == [kind |-> "null", commit_count |-> 0]

Count(n) == [kind |-> "count", commit_count |-> n]

EventAlphabet ==
    IF entry = "main"
    THEN {[project_id |-> 1, created_at |-> Timestamp(<<2025, 12, 31>>, "+09:00"),
           push_data |-> Absent],
          [project_id |-> 1, created_at |-> Timestamp(<<2025, 12, 31>>, "+09:00"),
           push_data |-> Count(0)],
          [project_id |-> 1, created_at |-> Malformed, push_data |-> Absent]}
    ELSE [project_id : {1, ForeignProjectId},
          created_at : Timestamps \cup {Malformed},
          push_data  : {Absent, Count(2), Null}]

EventWorlds ==
    IF entry = "main" THEN SeqsUpTo(EventAlphabet, 1)
    ELSE SeqsUpTo(EventAlphabet, MaxEvents)

\* created_at.replace('Z', '+00:00'), then datetime.fromisoformat(...).date():
\* the calendar date as written, whatever the offset
ParseDate(created_at) == created_at.date

InWindow(d) == DateLeq(START_DATE, d) /\ DateLeq(d, END_DATE)

\* the loop body with the day's list looked up before the records are added,
\* which makes the key
ProcessEvent_touches_key(daily, event, project_list) ==
    LET ids == {project_list[i].id : i \in 1..Len(project_list)}
        skip == [raised |-> FALSE, daily |-> daily, added |-> 0]
        fail == [raised |-> TRUE, daily |-> daily, added |-> 0]
    IN  IF event.project_id \notin ids THEN skip
        ELSE IF ~event.created_at.iso THEN fail
        ELSE IF ~InWindow(ParseDate(event.created_at)) THEN skip
        ELSE LET num_commits == IF event.push_data.kind = "absent" THEN 1
                                ELSE event.push_data.commit_count
                 p == CHOOSE i \in 1..Len(project_list) :
                         project_list[i].id = event.project_id
                 d == ParseDate(event.created_at)
                 rec == [repo |-> project_list[p].name, date |-> d, source |-> "gitlab"]
                 touched == [e \in DOMAIN daily \cup {d} |->
                               IF e \in DOMAIN daily THEN daily[e] ELSE <<>>]
             IN  IF event.push_data.kind = "null" THEN fail
                 ELSE [raised |-> FALSE,
                       daily |-> BucketAppendAll(touched, [i \in 1..num_commits |-> rec]),
                       added |-> num_commits]

\* the loop body with one record per event, whatever its commit_count
ProcessEvent_one_per_event(daily, event, project_list) ==
    LET ids == {project_list[i].id : i \in 1..Len(project_list)}
        skip == [raised |-> FALSE, daily |-> daily, added |-> 0]
        fail == [raised |-> TRUE, daily |-> daily, added |-> 0]
    IN  IF event.project_id \notin ids THEN skip
        ELSE IF ~event.created_at.iso THEN fail
        ELSE IF ~InWindow(ParseDate(event.created_at)) THEN skip
        ELSE LET p == CHOOSE i \in 1..Len(project_list) :
                         project_list[i].id = event.project_id
                 rec == [repo |-> project_list[p].name,
                         date |-> ParseDate(event.created_at), source |-> "gitlab"]
             IN  IF event.push_data.kind = "null" THEN fail
                 ELSE [raised |-> FALSE, daily |-> BucketAppend(daily, rec), added |-> 1]

\* the body of `for event in events` (lines 163-194) on one event: the bucket,
\* the number of records added, and whether the body raised
ProcessEvent(daily, event, project_list) ==
    LET ids == {project_list[i].id : i \in 1..Len(project_list)}
        skip == [raised |-> FALSE, daily |-> daily, added |-> 0]
        fail == [raised |-> TRUE, daily |-> daily, added |-> 0]
    IN  IF event.project_id \notin ids THEN skip
        ELSE IF ~event.created_at.iso THEN fail
        ELSE IF ~InWindow(ParseDate(event.created_at)) THEN skip
        ELSE LET num_commits == IF event.push_data.kind = "absent" THEN 1
                                ELSE event.push_data.commit_count
                 p == CHOOSE i \in 1..Len(project_list) :
                         project_list[i].id = event.project_id
                 rec == [repo |-> project_list[p].name,
                         date |-> ParseDate(event.created_at), source |-> "gitlab"]
             IN  IF event.push_data.kind = "null" THEN fail
                 ELSE [raised |-> FALSE,
                       daily |-> BucketAppendAll(daily, [i \in 1..num_commits |-> rec]),
                       added |-> num_commits]

\* the except handler returning the legacy records on top of those gathered
FallbackValue_keeps_records(daily_commits, legacy_result) ==
    ExtendAll(daily_commits, legacy_result)

\* line 202: what the except handler returns
FallbackValue(daily_commits, legacy_result) == legacy_result

\* events_done: the events the loop has been through, in order
gl_locals == <<projects, events, events_done, gl_daily, commit_count>>
lg_all == <<lg_pc, lg_projects, lg_daily, lg_result>>
not_gitlab == <<entry, tool_vars, pure_vars, gh_vars, main_vars>>

\* the except handler at line 198: the records gathered so far stay in
\* daily_commits; the legacy scan is called
Fallback(step) ==
    /\ gl_pc' = "fallback"
    /\ raised_at' = step
    /\ lg_pc' = "groups.get"
    /\ projects' = <<>>
    /\ events' = <<>>
    /\ events_done' = <<>>
    /\ UNCHANGED <<gl_daily, commit_count, gl_result, lg_projects, lg_daily, lg_result>>

\* lines 116-117
GL_Unavailable ==
    /\ gl_pc = "start"
    /\ ~GITLAB_AVAILABLE
    /\ gl_result' = EmptyBucket
    /\ gl_pc' = "returned"
    /\ UNCHANGED <<GITLAB_AVAILABLE, gl_locals, raised_at, lg_all, not_gitlab>>

\* gl.groups.get(group_name)
GL_GroupsGet ==
    /\ gl_pc = "start"
    /\ GITLAB_AVAILABLE
    /\ \/ /\ gl_pc' = "projects.list"
          /\ UNCHANGED <<gl_locals, raised_at, gl_result, lg_all>>
       \/ Fallback("groups.get")
    /\ UNCHANGED <<GITLAB_AVAILABLE, not_gitlab>>

\* group.projects.list(all=True)
GL_ProjectsList ==
    /\ gl_pc = "projects.list"
    /\ \/ /\ \E w \in ProjectWorlds : projects' = w
          /\ gl_pc' = "users.list"
          /\ UNCHANGED <<events, events_done, gl_daily, commit_count, raised_at, gl_result,
                         lg_all>>
       \/ Fallback("projects.list")
    /\ UNCHANGED <<GITLAB_AVAILABLE, not_gitlab>>

\* gl.users.list(username=username)
GL_UsersList ==
    /\ gl_pc = "users.list"
    /\ \/ /\ gl_pc' \in {"events.list", "users.search"}
          /\ UNCHANGED <<gl_locals, raised_at, gl_result, lg_all>>
       \/ Fallback("users.list")
    /\ UNCHANGED <<GITLAB_AVAILABLE, not_gitlab>>

\* gl.users.list(search=username); with no user found the empty bucket is
\* returned (line 148)
GL_UsersSearch ==
    /\ gl_pc = "users.search"
    /\ \/ /\ gl_pc' = "events.list"
          /\ UNCHANGED <<gl_locals, raised_at, gl_result, lg_all>>
       \/ /\ gl_pc' = "returned"
          /\ gl_result' = gl_daily
          /\ UNCHANGED <<gl_locals, raised_at, lg_all>>
       \/ Fallback("users.list")
    /\ UNCHANGED <<GITLAB_AVAILABLE, not_gitlab>>

\* user.events.list(action='pushed', ...)
GL_EventsList ==
    /\ gl_pc = "events.list"
    /\ \/ /\ \E w \in EventWorlds : events' = w
          /\ gl_pc' = "events"
          /\ UNCHANGED <<projects, events_done, gl_daily, commit_count, raised_at, gl_result,
                         lg_all>>
       \/ Fallback("events.list")
    /\ UNCHANGED <<GITLAB_AVAILABLE, not_gitlab>>

\* one iteration of `for event in events`
GL_Event ==
    /\ gl_pc = "events"
    /\ events # <<>>
    /\ LET r == ProcessEvent(gl_daily, Head(events), projects)
       IN  \/ /\ ~r.raised
              /\ gl_daily' = r.daily
              /\ commit_count' = commit_count + r.added
              /\ events' = Tail(events)
              /\ events_done' = Append(events_done, Head(events))
              /\ UNCHANGED <<gl_pc, projects, raised_at, gl_result, lg_all>>
           \/ /\ r.raised
              /\ Fallback("event")
    /\ UNCHANGED <<GITLAB_AVAILABLE, not_gitlab>>

\* line 204
GL_Return ==
    /\ gl_pc = "events"
    /\ events = <<>>
    /\ gl_result' = gl_daily
    /\ gl_pc' = "returned"
    /\ UNCHANGED <<GITLAB_AVAILABLE, gl_locals, raised_at, lg_all, not_gitlab>>

\* line 202, once the legacy scan has returned
GL_ReturnLegacy ==
    /\ gl_pc = "fallback"
    /\ lg_pc = "returned"
    /\ gl_result' = FallbackValue(gl_daily, lg_result)
    /\ gl_pc' = "returned"
    /\ UNCHANGED <<GITLAB_AVAILABLE, gl_locals, raised_at, lg_all, not_gitlab>>

\* A commit of a project's list is [author_match, created_at]: author_match is
\* the value of the test of lines 230-234 on its author name and email.
LegacyCommits ==
    IF entry = "main"
    THEN {[author_match |-> TRUE, created_at |-> Timestamp(<<2025, 1, 31>>, "Z")]}
    ELSE [author_match : BOOLEAN,
          created_at : {Timestamp(<<2025, 1, 31>>, "Z"),
                        Timestamp(<<2025, 2, 1>>, "+09:00")}]

\* the records of the matching commits among the first n of a project's list
LegacyRecords(project_info, commits, n) ==
    LET matching == SelectSeq(SubSeq(commits, 1, n), LAMBDA c : c.author_match)
    IN  [i \in 1..Len(matching) |->
            [repo |-> project_info.name, date |-> ParseDate(matching[i].created_at),
             source |-> "gitlab"]]

lg_frame == <<GITLAB_AVAILABLE, gl_pc, gl_locals, raised_at, gl_result, not_gitlab>>

\* gl.groups.get(group_name) of the legacy scan; a failure ends the scan with
\* what it has (lines 261-264)
LG_GroupsGet ==
    /\ lg_pc = "groups.get"
    /\ \/ /\ lg_pc' = "projects.list"
          /\ lg_daily' = EmptyBucket
          /\ UNCHANGED <<lg_projects, lg_result>>
       \/ /\ lg_pc' = "returned"
          /\ lg_daily' = EmptyBucket
          /\ lg_result' = EmptyBucket
          /\ UNCHANGED lg_projects
    /\ UNCHANGED lg_frame

LG_ProjectsList ==
    /\ lg_pc = "projects.list"
    /\ \/ /\ \E w \in ProjectWorlds : lg_projects' = w
          /\ lg_pc' = "projects"
          /\ UNCHANGED <<lg_daily, lg_result>>
       \/ /\ lg_pc' = "returned"
          /\ lg_result' = lg_daily
          /\ UNCHANGED <<lg_projects, lg_daily>>
    /\ UNCHANGED lg_frame

\* one iteration of `for idx, project_info in enumerate(projects, 1)`: the
\* project's commits are listed and scanned; when the iteration raises after n
\* commits (NoRaise: not at all) the loop goes on with the next project
LG_Project ==
    /\ lg_pc = "projects"
    /\ lg_projects # <<>>
    /\ \E commits \in SeqsUpTo(LegacyCommits, MaxProjectCommits) :
         \E n \in {NoRaise} \cup (0..Len(commits)) :
            lg_daily' = BucketAppendAll(lg_daily,
                          LegacyRecords(Head(lg_projects), commits,
                                        IF n = NoRaise THEN Len(commits) ELSE n))
    /\ lg_projects' = Tail(lg_projects)
    /\ UNCHANGED <<lg_pc, lg_result>>
    /\ UNCHANGED lg_frame

\* line 264
LG_Return ==
    /\ lg_pc = "projects"
    /\ lg_projects = <<>>
    /\ lg_result' = lg_daily
    /\ lg_pc' = "returned"
    /\ UNCHANGED <<lg_projects, lg_daily>>
    /\ UNCHANGED lg_frame

GitLabIdle ==
    /\ projects = <<>>
    /\ events = <<>>
    /\ events_done = <<>>
    /\ gl_daily = EmptyBucket
    /\ commit_count = 0
    /\ raised_at = "none"
    /\ gl_result = EmptyBucket
    /\ lg_pc = "idle"
    /\ lg_projects = <<>>
    /\ lg_daily = EmptyBucket
    /\ lg_result = EmptyBucket

\* a lookup that falls back on the first color of the table
ColorOf_first_color(project) ==
    IF project \in DOMAIN PROJECT_COLORS
    THEN PROJECT_COLORS[project] ELSE PROJECT_COLORS["topaz"]

(***************************************************************************)
(* Stage 3: generate_neatocal_data, and the tab strip of                   *)
(* generate_tabbed_html                                                    *)
(***************************************************************************)
\* PROJECT_COLORS.get(project, DEFAULT_COLOR)
ColorOf(project) ==
    IF project \in DOMAIN PROJECT_COLORS THEN PROJECT_COLORS[project] ELSE DEFAULT_COLOR

\* The returned dict: its "param" entry, and its date keys with their texts
\* (text). color_cell is the list built by the loop.
generate_neatocal_data(heatmap_data, year) ==
    [param |-> [year |-> year, layout |-> "aligned-weekdays", cell_height |-> "1.5em",
                start_day |-> 0, highlight_color |-> "#fef9c3",
                color_cell |-> [i \in 1..Len(heatmap_data) |->
                                  [date |-> heatmap_data[i].date,
                                   color |-> ColorOf(heatmap_data[i].project)]]],
     text |-> [d \in {heatmap_data[i].date : i \in 1..Len(heatmap_data)} |->
                 LET last == CHOOSE i \in 1..Len(heatmap_data) :
                                /\ heatmap_data[i].date = d
                                /\ \A j \in (i + 1)..Len(heatmap_data) :
                                      heatmap_data[j].date # d
                 IN  heatmap_data[last].project]]

\* user_calendars[display_name] = neatocal_data on a dict kept as the sequence
\* of its items in insertion order: a new key goes last, a known key keeps its
\* place
DictSet(dict, key, value) ==
    IF \E i \in 1..Len(dict) : dict[i].key = key
    THEN [i \in 1..Len(dict) |->
            IF dict[i].key = key THEN [key |-> key, value |-> value] ELSE dict[i]]
    ELSE Append(dict, [key |-> key, value |-> value])

\* generate_tabbed_html with every tab button marked active
generate_tabbed_html_all_active(calendars, year) ==
    [tab_buttons |-> [i \in 1..Len(calendars) |->
                        [name |-> calendars[i].key, active |-> TRUE]],
     all_data_keys |-> [i \in 1..Len(calendars) |-> calendars[i].key],
     first_user |-> IF calendars # <<>> THEN calendars[1].key ELSE "",
     year |-> year]

\* the tab buttons (lines 415-419), the keys of the ALL_CALENDAR_DATA object as
\* json.dumps writes them (line 422) and the first user (line 423)
generate_tabbed_html(calendars, year) ==
    [tab_buttons |-> [i \in 1..Len(calendars) |->
                        [name |-> calendars[i].key, active |-> (i = 1)]],
     all_data_keys |-> [i \in 1..Len(calendars) |-> calendars[i].key],
     first_user |-> IF calendars # <<>> THEN calendars[1].key ELSE "",
     year |-> year]

(***************************************************************************)
(* main                                                                    *)
(***************************************************************************)
None == "None"

\* config.USERS; the display names are written in Latin letters here
ConfigUsers ==
    <<[name |-> "Seyong",   github |-> "Nieaunder7",   gitlab |-> "sieging"],
      [name |-> "Bomi",     github |-> "bomi94437",    gitlab |-> None],
      [name |-> "Eunbi",    github |-> "eunbi0322",    gitlab |-> "eunbi0322"],
      [name |-> "Jinhwan",  github |-> "realight0316", gitlab |-> "0316kjh"],
      [name |-> "Jaeil",    github |-> "ShinJaeIL01",  gitlab |-> None],
      [name |-> "Jaehyeon", github |-> "jhkim6069",    gitlab |-> None],
      [name |-> "Yeongsu",  github |-> "youngsu999",   gitlab |-> "youngsu999"],
      [name |-> "Jihui",    github |-> "SUNJIHEE",     gitlab |-> "jiheesun"],
      [name |-> "Junmu",    github |-> "JunmooByun",   gitlab |-> "junmoo.byun"]>>

\* The rosters of the runs: the first NumPeople entries of config.USERS, and
\* the same people with other accounts left out (None), as the comment of
\* config.py allows.
Rosters ==
    {[i \in 1..NumPeople |-> ConfigUsers[i]],
     [i \in 1..NumPeople |->
        [name   |-> ConfigUsers[i].name,
         github |-> IF i % 3 = 0 THEN ConfigUsers[i].github ELSE None,
         gitlab |-> IF i % 3 = 1 THEN "gl" \o ConfigUsers[i].github ELSE None]]}

\* the events of a run, in order: collector calls, the no-data message, file
\* writes
Logged(op, name) == [op |-> op, name |-> name]

\* `if github_username:`
UsesGitHub(user) == user.github # None

\* the GitLab test without the capability flag
UsesGitLab_any_runtime(user) == user.gitlab # None

\* `if gitlab_username and GITLAB_AVAILABLE:`
UsesGitLab(user) == user.gitlab # None /\ GITLAB_AVAILABLE

not_main == <<entry, tool_vars, pure_vars>>

\* `for user in USERS`: the next user, or the end of the loop
Main_ForUser ==
    /\ main_pc = "for_user"
    /\ IF user_i < Len(USERS)
       THEN /\ user_i' = user_i + 1
            /\ all_commits' = EmptyBucket
            /\ main_pc' = "github"
       ELSE /\ main_pc' = "tabbed"
            /\ UNCHANGED <<user_i, all_commits>>
    /\ UNCHANGED <<USERS, user_calendars, tabbed_html, log, not_main, gh_vars, gl_vars>>

\* `if github_username:` true: collect_github_commits is called
Main_CallGitHub ==
    /\ main_pc = "github"
    /\ UsesGitHub(USERS[user_i])
    /\ main_pc' = "in_github"
    /\ gh_pc' = "get_organization"
    /\ log' = Append(log, Logged("collect_github_commits", USERS[user_i].name))
    /\ UNCHANGED <<repos, pending, results, gh_daily, total_commits, repos_with_commits>>
    /\ UNCHANGED <<USERS, user_i, all_commits, user_calendars, tabbed_html, not_main,
                   gl_vars>>

\* `if github_username:` false
Main_NoGitHub ==
    /\ main_pc = "github"
    /\ ~UsesGitHub(USERS[user_i])
    /\ main_pc' = "gitlab"
    /\ UNCHANGED <<USERS, user_i, all_commits, user_calendars, tabbed_html, log,
                   not_main, gh_vars, gl_vars>>

\* collect_github_commits returned: its bucket is merged into all_commits
Main_MergeGitHub ==
    /\ main_pc = "in_github"
    /\ gh_pc = "returned"
    /\ all_commits' = ExtendAll(all_commits, gh_daily)
    /\ main_pc' = "gitlab"
    /\ gh_pc' = "idle"
    /\ repos' = <<>>
    /\ pending' = {}
    /\ results' = EmptyBucket
    /\ gh_daily' = EmptyBucket
    /\ total_commits' = 0
    /\ repos_with_commits' = <<>>
    /\ UNCHANGED <<USERS, user_i, user_calendars, tabbed_html, log, not_main, gl_vars>>

\* collect_github_commits raised: main has no handler, the run ends there
Main_GitHubRaised ==
    /\ main_pc = "in_github"
    /\ gh_pc = "raised"
    /\ main_pc' = "aborted"
    /\ gh_pc' = "idle"
    /\ UNCHANGED <<repos, pending, results, gh_daily, total_commits, repos_with_commits>>
    /\ UNCHANGED <<USERS, user_i, all_commits, user_calendars, tabbed_html, log,
                   not_main, gl_vars>>

\* `if gitlab_username and GITLAB_AVAILABLE:` true
Main_CallGitLab ==
    /\ main_pc = "gitlab"
    /\ UsesGitLab(USERS[user_i])
    /\ main_pc' = "in_gitlab"
    /\ gl_pc' = "start"
    /\ log' = Append(log, Logged("collect_gitlab_commits", USERS[user_i].name))
    /\ UNCHANGED <<GITLAB_AVAILABLE, gl_locals, raised_at, gl_result, lg_all>>
    /\ UNCHANGED <<USERS, user_i, all_commits, user_calendars, tabbed_html, not_main,
                   gh_vars>>

\* `if gitlab_username and GITLAB_AVAILABLE:` false
Main_NoGitLab ==
    /\ main_pc = "gitlab"
    /\ ~UsesGitLab(USERS[user_i])
    /\ main_pc' = "check"
    /\ UNCHANGED <<USERS, user_i, all_commits, user_calendars, tabbed_html, log,
                   not_main, gh_vars, gl_vars>>

\* collect_gitlab_commits returned: its bucket is merged into all_commits
Main_MergeGitLab ==
    /\ main_pc = "in_gitlab"
    /\ gl_pc = "returned"
    /\ all_commits' = ExtendAll(all_commits, gl_result)
    /\ main_pc' = "check"
    /\ gl_pc' = "idle"
    /\ projects' = <<>>
    /\ events' = <<>>
    /\ events_done' = <<>>
    /\ gl_daily' = EmptyBucket
    /\ commit_count' = 0
    /\ raised_at' = "none"
    /\ gl_result' = EmptyBucket
    /\ lg_pc' = "idle"
    /\ lg_projects' = <<>>
    /\ lg_daily' = EmptyBucket
    /\ lg_result' = EmptyBucket
    /\ UNCHANGED <<GITLAB_AVAILABLE, USERS, user_i, user_calendars, tabbed_html, log,
                   not_main, gh_vars>>

\* the empty-bucket branch without its `continue`: the message, then the
\* output steps on the empty heatmap
Main_Skip_falls_through ==
    /\ main_pc = "check"
    /\ DOMAIN all_commits = {}
    /\ LET display_name == USERS[user_i].name
           heatmap_data == convert_to_heatmap(all_commits)
           neatocal_data == generate_neatocal_data(heatmap_data, START_DATE[1])
       IN  /\ user_calendars' = DictSet(user_calendars, display_name, neatocal_data)
           /\ log' = log \o <<Logged("no_data", display_name),
                              Logged("write_html", display_name),
                              Logged("write_json", display_name)>>
    /\ main_pc' = "for_user"
    /\ UNCHANGED <<USERS, user_i, all_commits, tabbed_html, not_main, gh_vars, gl_vars>>

\* `if not all_commits:` the message is printed, then `continue`
Main_Skip ==
    /\ main_pc = "check"
    /\ DOMAIN all_commits = {}
    /\ main_pc' = "for_user"
    /\ log' = Append(log, Logged("no_data", USERS[user_i].name))
    /\ UNCHANGED <<USERS, user_i, all_commits, user_calendars, tabbed_html,
                   not_main, gh_vars, gl_vars>>

\* lines 819-849: the heatmap, the calendar data, the HTML file, the JSON file
Main_Output ==
    /\ main_pc = "check"
    /\ DOMAIN all_commits # {}
    /\ LET display_name == USERS[user_i].name
           heatmap_data == convert_to_heatmap(all_commits)
           neatocal_data == generate_neatocal_data(heatmap_data, START_DATE[1])
       IN  /\ user_calendars' = DictSet(user_calendars, display_name, neatocal_data)
           /\ log' = log \o <<Logged("write_html", display_name),
                              Logged("write_json", display_name)>>
    /\ main_pc' = "for_user"
    /\ UNCHANGED <<USERS, user_i, all_commits, tabbed_html, not_main, gh_vars, gl_vars>>

\* lines 851-861: the combined document, when some user has a calendar
Main_Tabbed ==
    /\ main_pc = "tabbed"
    /\ IF Len(user_calendars) >= 1
       THEN /\ tabbed_html' = <<generate_tabbed_html(user_calendars, START_DATE[1])>>
            /\ log' = Append(log, Logged("write_tabbed", "all"))
       ELSE UNCHANGED <<tabbed_html, log>>
    /\ main_pc' = "done"
    /\ UNCHANGED <<USERS, user_i, all_commits, user_calendars, not_main, gh_vars, gl_vars>>

MainIdle ==
    /\ USERS = <<>>
    /\ main_pc = "idle"
    /\ user_i = 0
    /\ all_commits = EmptyBucket
    /\ user_calendars = <<>>
    /\ tabbed_html = <<>>
    /\ log = <<>>

(***************************************************************************)
(* convert_to_standalone.py                                                *)
(*                                                                         *)
(* A document is the sequence of its pieces: the tags the substitutions    *)
(* look for, the blocks they insert, and stretches of other text. A piece  *)
(* is [kind, file, prefix]: for a link or script tag, the file it refers   *)
(* to and what precedes `neatocal/` in the reference.                      *)
(***************************************************************************)
Piece(kind, file, prefix) == [kind |-> kind, file |-> file, prefix |-> prefix]

\* <link rel='stylesheet' href='{prefix}neatocal/css/{file}'>
LinkTag(file, prefix) == Piece("link", file, prefix)

\* <script type='text/javascript' src='{prefix}neatocal/{file}'></script>
ScriptTag(file, prefix) == Piece("script", file, prefix)

HeadTag == Piece("head", "", "")

\* <header>, which `<head[^>]*>` matches as well
HeaderTag == Piece("header", "", "")

\* a stretch of text holding none of the tags and no mention of the fonts host
Text(body) == Piece("text", body, "")

\* the google_fonts literal of lines 51-55
google_fonts == Piece("google_fonts", "", "")

\* the fixed text around the contents in css_inline and js_inline (lines 58-59)
StyleOpen == Piece("style_open", "", "")
StyleClose == Piece("style_close", "", "")
ScriptOpen == Piece("script_open", "", "")
ScriptClose == Piece("script_close", "", "")

\* a file of the directory: whether it exists, and its text
File(content) == [exists |-> TRUE, content |-> content]
MissingFile == [exists |-> FALSE, content |-> <<>>]

\* lines 33-37 and 41-45: the text of the file, "" when it does not exist
ReadBundleFile(f) == IF f.exists THEN f.content ELSE <<>>

\* what `['\"]\.?/?neatocal/` accepts between the quote and `neatocal/`
MatchedPrefixes == {"", "./", "/"}

\* the pieces `<link[^>]*href=['\"]\.?/?neatocal/css/{file}['\"][^>]*>` matches
LinkPattern(file) == {LinkTag(file, p) : p \in MatchedPrefixes}

\* the pieces `<script[^>]*src=['\"]\.?/?neatocal/neatocal\.js['\"][^>]*></script>`
\* matches
ScriptPattern == {ScriptTag("neatocal.js", p) : p \in MatchedPrefixes}

\* re.sub(pattern, lambda m: repl, html): every match, left to right, gives way
\* to repl
RECURSIVE re_sub(_, _, _)
re_sub(pattern, repl, html) ==
    IF html = <<>> THEN <<>>
    ELSE (IF Head(html) \in pattern THEN repl ELSE <<Head(html)>>)
            \o re_sub(pattern, repl, Tail(html))

\* "fonts.googleapis.com" in html_content
MentionsGoogleFonts(html) == \E i \in 1..Len(html) : html[i].kind = "google_fonts"

\* the pieces `(<head[^>]*>)` matches
HeadPattern == {HeadTag, HeaderTag}

\* lines 92-98: unless the host is mentioned, the fonts block follows the first
\* match of the head pattern
InsertGoogleFonts(html) ==
    IF MentionsGoogleFonts(html) THEN html
    ELSE IF \E i \in 1..Len(html) : html[i] \in HeadPattern
    THEN LET i == CHOOSE j \in 1..Len(html) :
                      /\ html[j] \in HeadPattern
                      /\ \A k \in 1..(j - 1) : html[k] \notin HeadPattern
         IN  SubSeq(html, 1, i) \o <<google_fonts>> \o SubSeq(html, i + 1, Len(html))
    ELSE html

\* lines 58-98: the text written to the output file
convert_to_standalone(html_content, css_content, js_content) ==
    LET css_inline == <<StyleOpen>> \o css_content \o <<StyleClose>>
        js_inline == <<ScriptOpen>> \o js_content \o <<ScriptClose>>
        no_oswald == re_sub(LinkPattern("Oswald.css"), <<>>, html_content)
        css_done == re_sub(LinkPattern("neatocal.css"), css_inline, no_oswald)
        js_done == re_sub(ScriptPattern, js_inline, css_done)
    IN  InsertGoogleFonts(js_done)

\* the pieces of the documents given to the converter
DocAlphabet ==
    {HeadTag, HeaderTag, Text("body"), google_fonts,
     LinkTag("Oswald.css", "./"),
     LinkTag("neatocal.css", "./"), LinkTag("neatocal.css", "/"),
     LinkTag("neatocal.css", "../"),
     ScriptTag("neatocal.js", "./"), ScriptTag("neatocal.js", "")}

InputDocuments ==
    {MissingFile} \cup {File(d) : d \in SeqsUpTo(DocAlphabet, MaxDocLen)}

\* neatocal/css/neatocal.css: absent, or plain rules
CssFiles == {MissingFile, File(<<Text("css")>>)}

\* neatocal/neatocal.js: absent, plain code, or code with a usage comment that
\* quotes the tag which loads the stylesheet, or the one which loads the script
JsFiles ==
    {MissingFile, File(<<Text("js")>>),
     File(<<Text("js"), LinkTag("neatocal.css", "./")>>),
     File(<<Text("js"), ScriptTag("neatocal.js", "./")>>)}

StandaloneIdle ==
    /\ sa_pc = "idle"
    /\ sa_html = MissingFile
    /\ sa_css = MissingFile
    /\ sa_js = MissingFile
    /\ sa_out = <<>>
    /\ sa_again = <<>>

not_standalone == <<entry, pure_vars, gh_vars, gl_vars, main_vars, mg_vars>>

\* lines 18-20: the input file does not exist
SA_NoInput ==
    /\ sa_pc = "start"
    /\ ~sa_html.exists
    /\ sa_pc' = "failed"
    /\ UNCHANGED <<sa_html, sa_css, sa_js, sa_out, sa_again, not_standalone>>

\* lines 22-105: the conversion of the input file
SA_Convert ==
    /\ sa_pc = "start"
    /\ sa_html.exists
    /\ sa_out' = convert_to_standalone(sa_html.content, ReadBundleFile(sa_css),
                                       ReadBundleFile(sa_js))
    /\ sa_pc' = "converted"
    /\ UNCHANGED <<sa_html, sa_css, sa_js, sa_again, not_standalone>>

\* the converter run on the file it wrote, beside the same bundle
SA_ConvertAgain ==
    /\ sa_pc = "converted"
    /\ sa_again' = convert_to_standalone(sa_out, ReadBundleFile(sa_css),
                                         ReadBundleFile(sa_js))
    /\ sa_pc' = "reconverted"
    /\ UNCHANGED <<sa_html, sa_css, sa_js, sa_out, not_standalone>>

(***************************************************************************)
(* merge_calendars.py                                                      *)
(*                                                                         *)
(* The text of a candidate file is [readable, found, valid, object]: can   *)
(* read_text decode it, does the CALENDAR_DATA pattern match, does         *)
(* json.loads accept the captured text, and the keys of the object it      *)
(* gives.                                                                  *)
(***************************************************************************)
Unreadable == [readable |-> FALSE, found |-> FALSE, valid |-> FALSE, object |-> <<>>]
NoVariable == [readable |-> TRUE, found |-> FALSE, valid |-> FALSE, object |-> <<>>]
BadJson == [readable |-> TRUE, found |-> TRUE, valid |-> FALSE, object |-> <<>>]
EmptyObject == [readable |-> TRUE, found |-> TRUE, valid |-> TRUE, object |-> <<>>]
Calendar ==
    [readable |-> TRUE, found |-> TRUE, valid |-> TRUE, object |-> <<"param", "2025-01-31">>]

FileTexts == {Unreadable, NoVariable, BadJson, EmptyObject, Calendar}

\* the value None, as a result of extract_calendar_data
NoData == [none |-> TRUE, keys |-> <<>>]

\* lines 38-51
extract_calendar_data(html_content) ==
    IF html_content.found
    THEN IF html_content.valid
         THEN [none |-> FALSE, keys |-> html_content.object]
         ELSE NoData
    ELSE NoData

\* `if data:` (line 341): neither None nor an empty object
Truthy(data) == ~data.none /\ data.keys # <<>>

\* the names in the file names `commit_calendar - {name}.html` of the directory
PersonName(i) ==
    CASE i = 1 -> "carol"
      [] i = 2 -> "Bob"
      [] i = 3 -> "alice"
      [] OTHER -> "Dave"

\* str.lower() on those names
lower(name) ==
    CASE name = "Bob" -> "bob"
      [] name = "Dave" -> "dave"
      [] OTHER -> name

\* the place of a string among these in Python's string order
StrRank(str) ==
    CASE str = "Bob" -> 1
      [] str = "Dave" -> 2
      [] str = "alice" -> 3
      [] str = "bob" -> 4
      [] str = "carol" -> 5
      [] OTHER -> 6

\* a sort key that keeps the case of the name
SortKey_case_sensitive(file) == StrRank(file.name)

\* key=lambda x: x['name'].lower() (line 66)
SortKey(file) == StrRank(lower(file.name))

\* files.sort(key=...): the files have distinct keys
RECURSIVE SortFiles(_)
SortFiles(files) ==
    IF files = <<>> THEN <<>>
    ELSE LET i == CHOOSE j \in 1..Len(files) :
                      \A k \in 1..Len(files) : SortKey(files[j]) <= SortKey(files[k])
         IN  <<files[i]>>
                \o SortFiles([k \in 1..(Len(files) - 1) |->
                                 IF k < i THEN files[k] ELSE files[k + 1]])

\* directory.glob("commit_calendar - *.html"): some of the names, each once, in
\* the order the file system lists them
GlobResults ==
    {f \in SeqsUpTo([name : {PersonName(i) : i \in 1..MaxFiles}, text : FileTexts],
                    MaxFiles) :
        \A a, b \in 1..Len(f) : a # b => f[a].name # f[b].name}

\* merge_calendars.generate_tabbed_html (lines 74-98): the tab buttons and the
\* keys of the ALL_CALENDAR_DATA object
merge_generate_tabbed_html(calendars) ==
    LET RECURSIVE Keys(_)
        Keys(n) == IF n = 0 THEN <<>>
                   ELSE DictSet(Keys(n - 1), calendars[n].name, calendars[n].data)
        calendar_data_js == Keys(Len(calendars))
    IN  [tab_buttons |-> [i \in 1..Len(calendars) |->
                             [name |-> calendars[i].name, active |-> (i = 1)]],
         all_data_keys |-> [i \in 1..Len(calendar_data_js) |-> calendar_data_js[i].key]]

MergerIdle ==
    /\ mg_pc = "idle"
    /\ mg_files = <<>>
    /\ mg_i = 0
    /\ mg_calendars = <<>>
    /\ mg_output = <<>>
    /\ mg_log = <<>>

not_merger == <<entry, pure_vars, gh_vars, gl_vars, main_vars, sa_vars>>

Said(what, name) == [what |-> what, name |-> name]

\* lines 321-329: find_calendar_files, and the end of the run when it finds
\* nothing
MG_FindFiles ==
    /\ mg_pc = "find"
    /\ mg_files' = SortFiles(mg_files)
    /\ IF mg_files = <<>>
       THEN /\ mg_pc' = "done"
            /\ mg_log' = Append(mg_log, Said("no_files", ""))
       ELSE /\ mg_pc' = "extract"
            /\ mg_log' = mg_log
    /\ UNCHANGED <<mg_i, mg_calendars, mg_output, not_merger>>

\* lines 335-352: one file of the extraction loop
MG_Extract ==
    /\ mg_pc = "extract"
    /\ mg_i < Len(mg_files)
    /\ mg_i' = mg_i + 1
    /\ LET f == mg_files[mg_i + 1]
           data == extract_calendar_data(f.text)
       IN  IF ~f.text.readable
           THEN /\ mg_log' = Append(mg_log, Said("error", f.name))
                /\ mg_calendars' = mg_calendars
           ELSE IF Truthy(data)
           THEN /\ mg_calendars' = Append(mg_calendars, [name |-> f.name, data |-> data.keys])
                /\ mg_log' = Append(mg_log, Said("ok", f.name))
           ELSE /\ mg_log' = Append(mg_log, Said("no_data", f.name))
                /\ mg_calendars' = mg_calendars
    /\ UNCHANGED <<mg_pc, mg_files, mg_output, not_merger>>

\* lines 354-363: the end of the run without data, or the combined file
MG_Finish ==
    /\ mg_pc = "extract"
    /\ mg_i = Len(mg_files)
    /\ mg_pc' = "done"
    /\ IF mg_calendars = <<>>
       THEN /\ mg_log' = Append(mg_log, Said("no_calendars", ""))
            /\ mg_output' = mg_output
       ELSE /\ mg_output' = <<merge_generate_tabbed_html(mg_calendars)>>
            /\ mg_log' = Append(mg_log, Said("saved", "commit_calendar_all.html"))
    /\ UNCHANGED <<mg_files, mg_i, mg_calendars, not_merger>>

(***************************************************************************)
(* Calls of the pure functions                                             *)
(***************************************************************************)
PureDates == {<<2025, 1, 31>>, <<2025, 2, 1>>}

PureRepos == {"NetAnalyzer", "NetAnalyzerLGHV", "vos"}

\* the buckets a collector can return: every key holds at least one record, and
\* a record's date is its key
BucketInputs ==
    UNION {[D -> UNION {[1..k -> PureRepos] : k \in 1..MaxDayLen}] : D \in SUBSET PureDates}

AsBucket(names) ==
    [d \in DOMAIN names |->
        [i \in 1..Len(names[d]) |-> [repo |-> names[d][i], date |-> d, source |-> "github"]]]

\* the heatmap entries given to generate_neatocal_data: one per date, in
\* ascending order of the dates, as convert_to_heatmap returns them
NeatoLabels == {"topaz", "vos", "unknown-repo"}

HeatmapInputs ==
    UNION {{[i \in 1..Len(SortedDates(D)) |->
                [date |-> strftime(SortedDates(D)[i]), count |-> 1,
                 project |-> labels[SortedDates(D)[i]], level |-> 4]] :
              labels \in [D -> NeatoLabels]} : D \in SUBSET PureDates}

\* the value of out_neatocal_data before the call returns
NoCalendar == generate_neatocal_data(<<>>, 0)

\* the repository names given to normalize_project_name: the keys of the
\* mapping table, a label of the table, and names the table does not know
RepoNameInputs ==
    DOMAIN PROJECT_MAPPING \cup {"topaz", "vos", "unknown-repo", "netanalyzer", ""}

PureIdle ==
    /\ in_repo_name = ""
    /\ out_project = ""
    /\ in_heatmap_data = <<>>
    /\ out_neatocal_data = NoCalendar
    /\ pure_pc = "idle"
    /\ in_daily_commits = EmptyBucket
    /\ out_heatmap_data = <<>>
    /\ in_count = 0
    /\ in_max_count = 1
    /\ out_level = 0

PureInit ==
    /\ StandaloneIdle
    /\ MergerIdle
    /\ entry = "pure"
    /\ GitHubIdle /\ gh_pc = "idle"
    /\ GitLabIdle /\ gl_pc = "idle" /\ GITLAB_AVAILABLE = TRUE
    /\ MainIdle
    /\ out_heatmap_data = <<>>
    /\ out_level = 0
    /\ out_neatocal_data = NoCalendar
    /\ out_project = ""
    /\ \/ /\ pure_pc = "convert_to_heatmap"
          /\ \E names \in BucketInputs : in_daily_commits = AsBucket(names)
          /\ in_count = 0
          /\ in_max_count = 1
          /\ in_heatmap_data = <<>>
          /\ in_repo_name = ""
       \/ /\ pure_pc = "calculate_level"
          /\ in_daily_commits = EmptyBucket
          /\ in_max_count \in 1..MaxCount
          /\ in_count \in 0..in_max_count
          /\ in_heatmap_data = <<>>
          /\ in_repo_name = ""
       \/ /\ pure_pc = "generate_neatocal_data"
          /\ in_daily_commits = EmptyBucket
          /\ in_count = 0
          /\ in_max_count = 1
          /\ in_heatmap_data \in HeatmapInputs
          /\ in_repo_name = ""
       \/ /\ pure_pc = "normalize_project_name"
          /\ in_daily_commits = EmptyBucket
          /\ in_count = 0
          /\ in_max_count = 1
          /\ in_heatmap_data = <<>>
          /\ in_repo_name \in RepoNameInputs

Call_convert_to_heatmap ==
    /\ pure_pc = "convert_to_heatmap"
    /\ out_heatmap_data' = convert_to_heatmap(in_daily_commits)
    /\ pure_pc' = "returned_heatmap"
    /\ UNCHANGED <<entry, tool_vars, in_daily_commits, in_count, in_max_count, out_level, gh_vars,
                   gl_vars, main_vars, in_heatmap_data, out_neatocal_data,
                   in_repo_name, out_project>>

Call_calculate_level ==
    /\ pure_pc = "calculate_level"
    /\ out_level' = calculate_level(in_count, in_max_count)
    /\ pure_pc' = "returned_level"
    /\ UNCHANGED <<entry, tool_vars, in_daily_commits, out_heatmap_data, in_count, in_max_count,
                   gh_vars, gl_vars, main_vars, in_heatmap_data, out_neatocal_data,
                   in_repo_name, out_project>>

Call_generate_neatocal_data ==
    /\ pure_pc = "generate_neatocal_data"
    /\ out_neatocal_data' = generate_neatocal_data(in_heatmap_data, START_DATE[1])
    /\ pure_pc' = "returned_neatocal"
    /\ UNCHANGED <<entry, tool_vars, in_daily_commits, out_heatmap_data, in_count, in_max_count,
                   out_level, gh_vars, gl_vars, main_vars, in_heatmap_data,
                   in_repo_name, out_project>>

Call_normalize_project_name ==
    /\ pure_pc = "normalize_project_name"
    /\ out_project' = normalize_project_name(in_repo_name)
    /\ pure_pc' = "returned_project"
    /\ UNCHANGED <<entry, tool_vars, in_daily_commits, out_heatmap_data, in_count, in_max_count,
                   out_level, gh_vars, gl_vars, main_vars, in_heatmap_data,
                   out_neatocal_data, in_repo_name>>

PureNext ==
    \/ Call_convert_to_heatmap \/ Call_calculate_level \/ Call_generate_neatocal_data
    \/ Call_normalize_project_name

SpecPure == PureInit /\ [][PureNext]_vars

(***************************************************************************)
(* One call of collect_github_commits                                      *)
(***************************************************************************)
GitHubInit ==
    /\ StandaloneIdle
    /\ MergerIdle
    /\ entry = "github"
    /\ PureIdle
    /\ GitHubIdle
    /\ gh_pc = "get_organization"
    /\ GitLabIdle /\ gl_pc = "idle" /\ GITLAB_AVAILABLE = TRUE
    /\ MainIdle

GitHubNext == GH_GetOrganization \/ GH_GetRepos \/ GH_AsCompleted \/ GH_Return

SpecGitHub == GitHubInit /\ [][GitHubNext]_vars

(***************************************************************************)
(* One call of collect_gitlab_commits                                      *)
(***************************************************************************)
GitLabInit ==
    /\ StandaloneIdle
    /\ MergerIdle
    /\ entry = "gitlab"
    /\ PureIdle
    /\ GitHubIdle /\ gh_pc = "idle"
    /\ GitLabIdle
    /\ gl_pc = "start"
    /\ GITLAB_AVAILABLE \in BOOLEAN
    /\ MainIdle

GitLabNext ==
    \/ GL_Unavailable \/ GL_GroupsGet \/ GL_ProjectsList \/ GL_UsersList
    \/ GL_UsersSearch \/ GL_EventsList \/ GL_Event \/ GL_Return \/ GL_ReturnLegacy
    \/ LG_GroupsGet \/ LG_ProjectsList \/ LG_Project \/ LG_Return

SpecGitLab == GitLabInit /\ [][GitLabNext]_vars

(***************************************************************************)
(* A run of main                                                           *)
(***************************************************************************)
Init ==
    /\ StandaloneIdle
    /\ MergerIdle
    /\ entry = "main"
    /\ PureIdle
    /\ GitHubIdle /\ gh_pc = "idle"
    /\ GitLabIdle /\ gl_pc = "idle"
    /\ GITLAB_AVAILABLE \in BOOLEAN
    /\ USERS \in Rosters
    /\ main_pc = "for_user"
    /\ user_i = 0
    /\ all_commits = EmptyBucket
    /\ user_calendars = <<>>
    /\ tabbed_html = <<>>
    /\ log = <<>>

Next ==
    \/ Main_ForUser \/ Main_CallGitHub \/ Main_NoGitHub \/ Main_MergeGitHub
    \/ Main_GitHubRaised \/ Main_CallGitLab \/ Main_NoGitLab \/ Main_MergeGitLab
    \/ Main_Skip \/ Main_Output \/ Main_Tabbed
    \/ GH_GetOrganization \/ GH_GetRepos \/ GH_AsCompleted \/ GH_Return
    \/ GL_GroupsGet \/ GL_ProjectsList \/ GL_UsersList
    \/ GL_UsersSearch \/ GL_EventsList \/ GL_Event \/ GL_Return \/ GL_ReturnLegacy
    \/ LG_GroupsGet \/ LG_ProjectsList \/ LG_Project \/ LG_Return

Spec == Init /\ [][Next]_vars

(***************************************************************************)
(* A run of convert_to_standalone and a second run on its output           *)
(***************************************************************************)
StandaloneInit ==
    /\ entry = "standalone"
    /\ PureIdle
    /\ GitHubIdle /\ gh_pc = "idle"
    /\ GitLabIdle /\ gl_pc = "idle" /\ GITLAB_AVAILABLE = TRUE
    /\ MainIdle
    /\ MergerIdle
    /\ sa_pc = "start"
    /\ sa_html \in InputDocuments
    /\ sa_css \in CssFiles
    /\ sa_js \in JsFiles
    /\ sa_out = <<>>
    /\ sa_again = <<>>

StandaloneNext == SA_NoInput \/ SA_Convert \/ SA_ConvertAgain

SpecStandalone == StandaloneInit /\ [][StandaloneNext]_vars

(***************************************************************************)
(* A run of the merger                                                     *)
(***************************************************************************)
MergerInit ==
    /\ entry = "merger"
    /\ PureIdle
    /\ GitHubIdle /\ gh_pc = "idle"
    /\ GitLabIdle /\ gl_pc = "idle" /\ GITLAB_AVAILABLE = TRUE
    /\ MainIdle
    /\ StandaloneIdle
    /\ mg_pc = "find"
    /\ mg_files \in GlobResults
    /\ mg_i = 0
    /\ mg_calendars = <<>>
    /\ mg_output = <<>>
    /\ mg_log = <<>>

MergerNext == MG_FindFiles \/ MG_Extract \/ MG_Finish

SpecMerger == MergerInit /\ [][MergerNext]_vars

(***************************************************************************)
(* Properties                                                              *)
(***************************************************************************)
\* the number of records of a day whose repository maps to the label
LabelCount(commits, label) ==
    Cardinality({i \in 1..Len(commits) : normalize_project_name(commits[i].repo) = label})

DayLabels(commits) == {normalize_project_name(commits[i].repo) : i \in 1..Len(commits)}

\* a day with records A, A, A, B, B, B, B, B, A
ExampleDay ==
    [d \in {<<2025, 3, 5>>} |->
        [i \in 1..9 |-> [repo |-> IF i \in 4..8 THEN "B" ELSE "A", date |-> d,
                         source |-> "github"]]]

\* C1: for every day of the bucket convert_to_heatmap emits an entry whose
\* count is the number of records of the day and whose project is a label of
\* the day that no label exceeds in records, repositories of one label counted
\* together; the day of 4 A and 5 B gives project B and count 9.
C1_HeatmapEntryPerDay ==
    /\ pure_pc = "returned_heatmap" =>
         \A d \in DOMAIN in_daily_commits :
            \E i \in 1..Len(out_heatmap_data) :
               /\ out_heatmap_data[i].date = strftime(d)
               /\ out_heatmap_data[i].count = Len(in_daily_commits[d])
               /\ out_heatmap_data[i].project \in DayLabels(in_daily_commits[d])
               /\ \A q \in DayLabels(in_daily_commits[d]) :
                     LabelCount(in_daily_commits[d], q)
                        <= LabelCount(in_daily_commits[d], out_heatmap_data[i].project)
    /\ LET out == convert_to_heatmap(ExampleDay)
       IN  Len(out) = 1 /\ out[1].project = "B" /\ out[1].count = 9

\* a day on which two repositories of one label together outnumber the label
\* seen first
C1_Witness ==
    /\ pure_pc = "returned_heatmap"
    /\ \E d \in DOMAIN in_daily_commits :
          /\ Len(in_daily_commits[d]) = 3
          /\ in_daily_commits[d][1].repo = "vos"
          /\ in_daily_commits[d][2].repo = "NetAnalyzer"
          /\ in_daily_commits[d][3].repo = "NetAnalyzerLGHV"
          /\ \E i \in 1..Len(out_heatmap_data) :
                /\ out_heatmap_data[i].date = strftime(d)
                /\ out_heatmap_data[i].project = "netmeter"
                /\ out_heatmap_data[i].count = 3

\* the level the thresholds of the claim give
ThresholdLevel(c, m) ==
    IF c = 0 THEN 0
    ELSE IF 4 * c <= m THEN 1
    ELSE IF 2 * c <= m THEN 2
    ELSE IF 4 * c <= 3 * m THEN 3
    ELSE 4

\* C2: for 0 <= count <= max_count and max_count >= 1, calculate_level returns
\* 0 iff count = 0, else 1, 2, 3 by the inclusive thresholds 1/4, 1/2, 3/4 of
\* max_count and 4 above them; the level does not decrease with count; for
\* max_count = 100 the counts 0, 25, 26, 50, 51, 75, 76, 100 give 0, 1, 2, 2,
\* 3, 3, 4, 4.
C2_LevelThresholds ==
    pure_pc = "returned_level" =>
        /\ out_level = ThresholdLevel(in_count, in_max_count)
        /\ (out_level = 0) <=> (in_count = 0)
        /\ \A c \in 0..in_count : calculate_level(c, in_max_count) <= out_level
        /\ in_max_count = 100 =>
              /\ in_count = 0 => out_level = 0
              /\ in_count = 25 => out_level = 1
              /\ in_count = 26 => out_level = 2
              /\ in_count = 50 => out_level = 2
              /\ in_count = 51 => out_level = 3
              /\ in_count = 75 => out_level = 3
              /\ in_count = 76 => out_level = 4
              /\ in_count = 100 => out_level = 4

C2_Witness ==
    /\ pure_pc = "returned_level"
    /\ in_max_count = 100
    /\ in_count = 75
    /\ out_level = 3

\* the number of occurrences of a record in a list
Occurrences(list, r) == Cardinality({i \in 1..Len(list) : list[i] = r})

\* C3: when a step of the event-based path raises, collect_gitlab_commits
\* returns exactly what the legacy scan returned, whatever the event path had
\* gathered, and the exception is handled inside the collector.
C3_FallbackReturnsLegacy ==
    /\ raised_at # "none" => gl_pc \in {"fallback", "returned"}
    /\ (gl_pc = "returned" /\ raised_at # "none") =>
          /\ lg_pc = "returned"
          /\ gl_result = lg_result

\* an event raised after records had been gathered, and the legacy scan found
\* commits
C3_Witness ==
    /\ gl_pc = "returned"
    /\ raised_at = "event"
    /\ DOMAIN gl_daily # {}
    /\ DOMAIN lg_result # {}
    /\ gl_result = lg_result

\* the records of a repository in a day's list, in order
RecordsOf(list, repo_name) == SelectSeq(list, LAMBDA c : c.repo = repo_name)

\* C4: a repository whose query raised, at whatever point, contributes no
\* record to the returned bucket, and every other repository contributes all of
\* its commits.
C4_FailedRepoContributesNothing ==
    gh_pc = "returned" =>
        \A i \in DOMAIN results :
            IF results[i].raised
            THEN \A d \in DOMAIN gh_daily : RecordsOf(gh_daily[d], repos[i].name) = <<>>
            ELSE \A d \in GitHubDates :
                    RecordsOf(IF d \in DOMAIN gh_daily THEN gh_daily[d] ELSE <<>>,
                              repos[i].name)
                    = SelectSeq(fetch_repo_commits(repos[i], NoRaise)[2],
                                LAMBDA c : c.date = d)

\* the bucket the futures loop builds when the first n futures complete in the
\* order of their submission
RECURSIVE MergedInSubmissionOrder(_, _)
MergedInSubmissionOrder(n, res) ==
    IF n = 0 THEN EmptyBucket
    ELSE MergeFuture(MergedInSubmissionOrder(n - 1, res), <<"", res[n].commits>>)

\* the list of the day an entry of a heatmap stands for
DayOf(daily, item) == daily[CHOOSE d \in DOMAIN daily : strftime(d) = item.date]

\* C5 as stated: whatever the completion order of the same query results, the
\* heatmap entries (date, count, project, level) are the same: those of the
\* order of submission.
C5_ArrivalOrderImmaterial ==
    gh_pc = "returned" =>
        convert_to_heatmap(MergedInSubmissionOrder(Len(repos), results))
           = convert_to_heatmap(gh_daily)

\* C5, amended: whatever the completion order of the same query results, the
\* heatmap has the dates, counts and levels of the order of submission, and its
\* project on every day on which one label has more records than every other;
\* on a day with tied labels each order yields one of the tied labels.
C5_ArrivalOrderUpToTies ==
    gh_pc = "returned" =>
            LET a == convert_to_heatmap(gh_daily)
                b == convert_to_heatmap(MergedInSubmissionOrder(Len(repos), results))
            IN  /\ Len(a) = Len(b)
                /\ \A i \in 1..Len(a) :
                      /\ a[i].date = b[i].date
                      /\ a[i].count = b[i].count
                      /\ a[i].level = b[i].level
                      /\ \/ a[i].project = b[i].project
                         \/ LET day == DayOf(gh_daily, a[i])
                            IN  /\ LabelCount(day, a[i].project) = LabelCount(day, b[i].project)
                                /\ \A q \in DayLabels(day) :
                                      LabelCount(day, q) <= LabelCount(day, a[i].project)

\* two repositories of different labels tie on a day, a third record makes
\* another day's label unique, and another completion order gives another
\* project
C5_Witness ==
    /\ gh_pc = "returned"
    /\ Cardinality(DOMAIN results) = 2
    /\ convert_to_heatmap(MergedInSubmissionOrder(Len(repos), results))
          # convert_to_heatmap(gh_daily)
    /\ \E d \in DOMAIN gh_daily :
          /\ Cardinality(DayLabels(gh_daily[d])) = 2
          /\ \E q \in DayLabels(gh_daily[d]) : LabelCount(gh_daily[d], q) = 2

HasLog(op, name) == \E k \in 1..Len(log) : log[k] = Logged(op, name)

SomeOutput == \E k \in 1..Len(log) : log[k].op = "write_html"

\* C6: no failure of an external call aborts the run: every roster person is
\* processed, and the combined file is written when some person produced data.
C6_NoFailureAbortsRun ==
    /\ main_pc # "aborted"
    /\ main_pc = "done" =>
          /\ user_i = Len(USERS)
          /\ SomeOutput => HasLog("write_tabbed", "all")

\* C7: when the processing of one push event raises, the records gathered from
\* the other events of the query are still in the collector's result.
C7_EventFailureIsolated ==
    (gl_pc = "returned" /\ raised_at = "event") =>
        \A d \in DOMAIN gl_daily :
            /\ d \in DOMAIN gl_result
            /\ \A i \in 1..Len(gl_daily[d]) :
                  Occurrences(gl_result[d], gl_daily[d][i])
                     >= Occurrences(gl_daily[d], gl_daily[d][i])

HasKey(dict, key) == \E i \in 1..Len(dict) : dict[i].key = key

\* the step main takes from the test of an empty merged bucket
EmptyBucketStep ==
    (main_pc = "check" /\ DOMAIN all_commits = {}) =>
        /\ main_pc' = "for_user"
        /\ user_i' = user_i
        /\ user_calendars' = user_calendars
        /\ tabbed_html' = tabbed_html
        /\ log' = Append(log, Logged("no_data", USERS[user_i].name))

\* the step main takes at the head of the loop while roster people remain
NextPersonStep ==
    (main_pc = "for_user" /\ user_i < Len(USERS)) =>
        /\ main_pc' = "github"
        /\ user_i' = user_i + 1
        /\ all_commits' = EmptyBucket

\* C8: convert_to_heatmap of the empty bucket is the empty list; a roster
\* person whose merged bucket is empty gets no HTML file, no JSON file and no
\* entry of user_calendars, and main goes on with the next roster person.
C8_EmptyBucketSkipsPerson ==
    /\ [](/\ convert_to_heatmap(EmptyBucket) = <<>>
          /\ \A k \in 1..Len(log) :
                log[k].op = "no_data" =>
                   /\ ~HasLog("write_html", log[k].name)
                   /\ ~HasLog("write_json", log[k].name)
                   /\ ~HasKey(user_calendars, log[k].name))
    /\ [][EmptyBucketStep /\ NextPersonStep]_vars

\* a person without data was passed over and a later person got files
C8_Witness ==
    \E j \in 1..Len(USERS) : \E k \in (j + 1)..Len(USERS) :
        /\ HasLog("no_data", USERS[j].name)
        /\ HasLog("write_html", USERS[k].name)
        /\ HasLog("write_json", USERS[k].name)
        /\ HasKey(user_calendars, USERS[k].name)

\* the display names of the roster people whose files were written, in roster
\* order
ActiveNames ==
    LET names == [j \in 1..Len(USERS) |-> USERS[j].name]
    IN  SelectSeq(names, LAMBDA n : HasLog("write_html", n))

\* C9: the combined document has exactly one tab button and one key of the
\* all-calendars object per roster person with data, in roster order, the first
\* tab alone is active, and people without data have neither tab nor key.
C9_TabsMatchActivePeople ==
    tabbed_html # <<>> =>
        LET doc == tabbed_html[1]
        IN  /\ ActiveNames # <<>>
            /\ Len(doc.tab_buttons) = Len(ActiveNames)
            /\ \A i \in 1..Len(doc.tab_buttons) :
                  /\ doc.tab_buttons[i].name = ActiveNames[i]
                  /\ doc.tab_buttons[i].active <=> (i = 1)
            /\ doc.all_data_keys = ActiveNames
            /\ doc.first_user = ActiveNames[1]
            /\ \A j \in 1..Len(USERS) :
                  HasLog("no_data", USERS[j].name) =>
                     \A i \in 1..Len(doc.tab_buttons) :
                        /\ doc.tab_buttons[i].name # USERS[j].name
                        /\ doc.all_data_keys[i] # USERS[j].name

\* two people have tabs, the first roster person has none
C9_Witness ==
    /\ tabbed_html # <<>>
    /\ Len(tabbed_html[1].tab_buttons) = 2
    /\ HasLog("no_data", USERS[1].name)
    /\ tabbed_html[1].tab_buttons[1].name = USERS[2].name

\* the place of a log entry in the order the claim states: roster order, and
\* for one person GitHub, GitLab, then the message or the HTML and JSON files;
\* the combined file after everybody
LogRank(e) ==
    IF e.op = "write_tabbed" THEN 10 * (Len(USERS) + 1)
    ELSE 10 * (CHOOSE j \in 1..Len(USERS) : USERS[j].name = e.name)
         + (CASE e.op = "collect_github_commits" -> 1
              [] e.op = "collect_gitlab_commits" -> 2
              [] e.op = "no_data" -> 3
              [] e.op = "write_html" -> 3
              [] e.op = "write_json" -> 4)

\* main has passed the GitHub test, or the GitLab test, of roster person j
PastGitHubTest(j) == j < user_i \/ (j = user_i /\ main_pc # "github")

PastGitLabTest(j) ==
    j < user_i \/ (j = user_i /\ main_pc \in {"in_gitlab", "check", "for_user", "tabbed", "done"})

\* C10: in roster order, the GitHub collector is called for a person iff a
\* GitHub account is configured and the GitLab collector iff a GitLab account
\* is configured and the GitLab capability is available; a person's HTML and
\* JSON files are written before the next person is collected; the combined
\* file is written once, after all people have been processed, iff a person
\* produced data.
C10_MainOrder ==
    /\ \A a, b \in 1..Len(log) : a < b => LogRank(log[a]) < LogRank(log[b])
    /\ \A j \in 1..Len(USERS) :
          /\ HasLog("collect_github_commits", USERS[j].name)
                <=> (PastGitHubTest(j) /\ USERS[j].github # None)
          /\ HasLog("collect_gitlab_commits", USERS[j].name)
                <=> (PastGitLabTest(j) /\ USERS[j].gitlab # None /\ GITLAB_AVAILABLE)
          /\ HasLog("write_html", USERS[j].name) <=> HasLog("write_json", USERS[j].name)
          /\ HasLog("write_html", USERS[j].name) <=> HasKey(user_calendars, USERS[j].name)
    /\ HasLog("write_tabbed", "all") =>
          /\ main_pc = "done"
          /\ user_i = Len(USERS)
          /\ SomeOutput
    /\ main_pc = "done" =>
          /\ user_i = Len(USERS)
          /\ HasLog("write_tabbed", "all") <=> SomeOutput
          /\ (tabbed_html # <<>>) <=> SomeOutput

\* a finished run in which a person had only a GitLab account, a person had no
\* account, and the combined file was written
C10_Witness ==
    /\ main_pc = "done"
    /\ HasLog("write_tabbed", "all")
    /\ \E j \in 1..Len(USERS) :
          /\ USERS[j].github = None
          /\ HasLog("collect_gitlab_commits", USERS[j].name)
          /\ HasLog("write_json", USERS[j].name)
    /\ \E j \in 1..Len(USERS) :
          /\ USERS[j].github # None
          /\ USERS[j].gitlab = None
          /\ HasLog("collect_github_commits", USERS[j].name)

\* the number of pieces of a document that belong to a set
CountIn(html, pieces) == Cardinality({i \in 1..Len(html) : html[i] \in pieces})

\* every block that opens in the document holds exactly the given content and
\* then closes
BlocksHold(html, open, content, close) ==
    \A i \in 1..Len(html) :
        html[i] = open =>
            /\ i + Len(content) + 1 <= Len(html)
            /\ SubSeq(html, i + 1, i + Len(content)) = content
            /\ html[i + Len(content) + 1] = close

\* C11: the converted document holds no link tag to the bundle's font
\* stylesheet, an inline style block with the CSS file's exact content in place
\* of every link tag to the bundle's main stylesheet and an inline script
\* block with the script file's exact content in place of every script tag to
\* the bundle's script; and converting the converted document gives the same
\* document again.
C11_StandaloneIdempotent ==
    /\ sa_pc \in {"converted", "reconverted"} =>
          /\ CountIn(sa_out, LinkPattern("Oswald.css")) = 0
          /\ CountIn(sa_out, LinkPattern("neatocal.css")) = 0
          /\ CountIn(sa_out, ScriptPattern) = 0
          /\ CountIn(sa_out, {StyleOpen})
                = CountIn(sa_html.content, LinkPattern("neatocal.css"))
          /\ CountIn(sa_out, {ScriptOpen}) = CountIn(sa_html.content, ScriptPattern)
          /\ BlocksHold(sa_out, StyleOpen, ReadBundleFile(sa_css), StyleClose)
          /\ BlocksHold(sa_out, ScriptOpen, ReadBundleFile(sa_js), ScriptClose)
    /\ sa_pc = "reconverted" => sa_again = sa_out

\* the names of the candidate files that hold a calendar: readable, with a
\* CALENDAR_DATA object that parses and is not empty
RecoveredNames ==
    {mg_files[i].name : i \in {j \in 1..Len(mg_files) :
        LET t == mg_files[j].text
        IN  t.readable /\ t.found /\ t.valid /\ t.object # <<>>}}

MergerSaid(what) == \E k \in 1..Len(mg_log) : mg_log[k].what = what

\* C12: the merger goes through every candidate file; the combined document
\* has exactly one tab per file that held a calendar, in the case-insensitive
\* order of the names, the first tab alone active; and when no file holds one
\* the merger says so and writes no combined file.
C12_MergerSkipsUnparseable ==
    mg_pc = "done" =>
        /\ mg_i = Len(mg_files)
        /\ IF RecoveredNames = {}
           THEN /\ mg_output = <<>>
                /\ MergerSaid("no_files") \/ MergerSaid("no_calendars")
                /\ ~MergerSaid("saved")
           ELSE /\ mg_output # <<>>
                /\ MergerSaid("saved")
                /\ LET tabs == mg_output[1].tab_buttons
                   IN  /\ Len(tabs) = Cardinality(RecoveredNames)
                       /\ {tabs[i].name : i \in 1..Len(tabs)} = RecoveredNames
                       /\ \A i, j \in 1..Len(tabs) :
                             i < j => StrRank(lower(tabs[i].name))
                                        < StrRank(lower(tabs[j].name))
                       /\ \A i \in 1..Len(tabs) : tabs[i].active <=> (i = 1)

\* of three files the one without the data variable was passed over, and the
\* two tabs are alice and Bob though the directory listed Bob first
C12_Witness ==
    /\ mg_pc = "done"
    /\ Len(mg_files) = 3
    /\ \E k \in 1..Len(mg_log) : mg_log[k] = Said("no_data", "carol")
    /\ \E i \in 1..3 : mg_files[i].name = "carol" /\ mg_files[i].text = NoVariable
    /\ mg_output # <<>>
    /\ Len(mg_output[1].tab_buttons) = 2
    /\ mg_output[1].tab_buttons[1] = [name |-> "alice", active |-> TRUE]
    /\ mg_output[1].tab_buttons[2] = [name |-> "Bob", active |-> FALSE]

\* C13: color_cell of the returned structure holds one {date, color} pair per
\* heatmap entry, in the order of the entries, with the color table's value
\* for a listed label and the gray #6b7280 for any other; the keys other than
\* param are exactly the entries' dates, each with its entry's label.
C13_CalendarDataColors ==
    pure_pc = "returned_neatocal" =>
        LET cells == out_neatocal_data.param.color_cell
        IN  /\ Len(cells) = Len(in_heatmap_data)
            /\ \A i \in 1..Len(in_heatmap_data) :
                  LET e == in_heatmap_data[i]
                  IN  /\ cells[i].date = e.date
                      /\ cells[i].color =
                            (CASE e.project = "topaz" -> "#ef4444"
                               [] e.project = "EvoRev2" -> "#3b82f6"
                               [] e.project = "vos" -> "#22c55e"
                               [] e.project = "ott" -> "#f59e0b"
                               [] e.project = "netmeter" -> "#8b5cf6"
                               [] e.project = "xray" -> "#06b6d4"
                               [] OTHER -> "#6b7280")
                      /\ e.date \in DOMAIN out_neatocal_data.text
                      /\ out_neatocal_data.text[e.date] = e.project
            /\ DOMAIN out_neatocal_data.text
                  = {in_heatmap_data[i].date : i \in 1..Len(in_heatmap_data)}

\* two entries: a listed label with its color, then an unlisted one in gray
C13_Witness ==
    /\ pure_pc = "returned_neatocal"
    /\ Len(in_heatmap_data) = 2
    /\ in_heatmap_data[1].project = "topaz"
    /\ in_heatmap_data[2].project = "unknown-repo"
    /\ out_neatocal_data.param.color_cell
          = <<[date |-> "2025-01-31", color |-> "#ef4444"],
              [date |-> "2025-02-01", color |-> "#6b7280"]>>
    /\ out_neatocal_data.text["2025-02-01"] = "unknown-repo"

\* the labels of a day's records with the highest record count
TiedLabels(commits) ==
    {q \in DayLabels(commits) :
        \A r \in DayLabels(commits) : LabelCount(commits, r) <= LabelCount(commits, q)}

\* the place of the first record of a label in a day's record list
FirstRecord(commits, label) ==
    CHOOSE i \in 1..Len(commits) :
        /\ normalize_project_name(commits[i].repo) = label
        /\ \A j \in 1..(i - 1) : normalize_project_name(commits[j].repo) # label

\* the entry of the heatmap for a date of the bucket
EntryOf(heatmap_data, d) ==
    heatmap_data[CHOOSE i \in 1..Len(heatmap_data) : heatmap_data[i].date = strftime(d)]

\* C14: on a day where two or more labels tie for the highest record count,
\* the representative project is the tied label whose first record comes
\* earliest in the day's record list.
C14_FirstSeenWinsTies ==
    pure_pc = "returned_heatmap" =>
        \A d \in DOMAIN in_daily_commits :
            LET commits == in_daily_commits[d]
                tied == TiedLabels(commits)
            IN  Cardinality(tied) >= 2 =>
                   /\ \E i \in 1..Len(out_heatmap_data) :
                         out_heatmap_data[i].date = strftime(d)
                   /\ EntryOf(out_heatmap_data, d).project \in tied
                   /\ \A q \in tied :
                         FirstRecord(commits, EntryOf(out_heatmap_data, d).project)
                            <= FirstRecord(commits, q)

\* the same two labels tie on both days: vos comes first on one and wins it,
\* netmeter comes first on the other and wins that
C14_Witness ==
    /\ pure_pc = "returned_heatmap"
    /\ DOMAIN in_daily_commits = PureDates
    /\ \A d \in PureDates : TiedLabels(in_daily_commits[d]) = {"vos", "netmeter"}
    /\ in_daily_commits[<<2025, 1, 31>>][1].repo = "vos"
    /\ in_daily_commits[<<2025, 2, 1>>][1].repo = "NetAnalyzer"
    /\ out_heatmap_data[1].project = "vos"
    /\ out_heatmap_data[2].project = "netmeter"

\* C15: normalize_project_name returns the mapped label for every repository
\* name the mapping table lists and the name itself for every other name;
\* topaz-stb-test-system gives topaz and unknown-repo gives unknown-repo.
C15_NormalizeTotal ==
    pure_pc = "returned_project" =>
        /\ in_repo_name \in DOMAIN PROJECT_MAPPING => out_project = PROJECT_MAPPING[in_repo_name]
        /\ in_repo_name \notin DOMAIN PROJECT_MAPPING => out_project = in_repo_name
        /\ in_repo_name = "topaz-stb-test-system" => out_project = "topaz"
        /\ in_repo_name = "unknown-repo" => out_project = "unknown-repo"

\* a name the table does not list came back unchanged
C15_Witness ==
    /\ pure_pc = "returned_project"
    /\ in_repo_name = "unknown-repo"
    /\ out_project = "unknown-repo"

\* the number of records the events of a list owe to a date and a project of
\* the group: the commit_count of every event of that project on that date, 1
\* for an event without the field
RECURSIVE EventRecords(_, _, _)
EventRecords(evts, d, project) ==
    IF evts = <<>> THEN 0
    ELSE LET e == Head(evts)
             n == IF e.project_id = project.id /\ e.created_at.iso /\ e.created_at.date = d
                  THEN (IF e.push_data.kind = "absent" THEN 1 ELSE e.push_data.commit_count)
                  ELSE 0
         IN  n + EventRecords(Tail(evts), d, project)

\* the dates of the reporting window that the event timestamps name
WindowDates ==
    {t.date : t \in {u \in Timestamps :
                       DateLeq(START_DATE, u.date) /\ DateLeq(u.date, END_DATE)}}

\* C16: when no step of the event-based path raises, the returned bucket
\* holds, for every date of the window and every project of the group, as
\* many records stamped with that date and that project's name as the
\* commit_counts of the project's events of that date add up to (1 for an
\* event without the field), and nothing else: no other date, no other record.
C16_EventBucketIsEventSum ==
    (gl_pc = "returned" /\ raised_at = "none") =>
        /\ \A d \in DOMAIN gl_result :
              /\ d \in WindowDates
              /\ gl_result[d] # <<>>
              /\ \A i \in 1..Len(gl_result[d]) :
                    /\ gl_result[d][i].date = d
                    /\ gl_result[d][i].source = "gitlab"
                    /\ \E p \in 1..Len(projects) :
                          gl_result[d][i].repo = projects[p].name
        /\ \A d \in WindowDates : \A p \in 1..Len(projects) :
              LET owed == EventRecords(events_done, d, projects[p])
                  have == IF d \in DOMAIN gl_result
                          THEN Len(RecordsOf(gl_result[d], projects[p].name)) ELSE 0
              IN  have = owed
        /\ commit_count = BucketSize(gl_result)

\* two events of a group project on one day, one without commit_count and one
\* with 2, and the day holds three records
C16_Witness ==
    /\ gl_pc = "returned"
    /\ raised_at = "none"
    /\ Len(events_done) = 2
    /\ events_done[1].project_id = 1 /\ events_done[2].project_id = 1
    /\ events_done[1].push_data = Absent
    /\ events_done[2].push_data = Count(2)
    /\ events_done[1].created_at = Timestamp(<<2025, 12, 31>>, "+09:00")
    /\ events_done[2].created_at = Timestamp(<<2025, 12, 31>>, "+09:00")
    /\ DOMAIN gl_result = {<<2025, 12, 31>>}
    /\ Len(gl_result[<<2025, 12, 31>>]) = 3

\* C17: the list convert_to_heatmap returns has exactly one entry per date key
\* of the bucket, in strictly ascending order of the dates, none repeated, and
\* no entry for a date without a commit record.
C17_OneEntryPerDateAscending ==
    pure_pc = "returned_heatmap" =>
        /\ Len(out_heatmap_data) = Cardinality(DOMAIN in_daily_commits)
        /\ \A d \in DOMAIN in_daily_commits :
              Cardinality({i \in 1..Len(out_heatmap_data) :
                              out_heatmap_data[i].date = strftime(d)}) = 1
        /\ \A i \in 1..Len(out_heatmap_data) :
              \E d \in DOMAIN in_daily_commits :
                  /\ out_heatmap_data[i].date = strftime(d)
                  /\ in_daily_commits[d] # <<>>
        /\ \A i, j \in 1..Len(out_heatmap_data) :
              i < j =>
                 \E a, b \in DOMAIN in_daily_commits :
                     /\ out_heatmap_data[i].date = strftime(a)
                     /\ out_heatmap_data[j].date = strftime(b)
                     /\ DateLess(a, b)

\* the last day of January comes before the first of February
C17_Witness ==
    /\ pure_pc = "returned_heatmap"
    /\ DOMAIN in_daily_commits = {<<2025, 1, 31>>, <<2025, 2, 1>>}
    /\ Len(out_heatmap_data) = 2
    /\ out_heatmap_data[1].date = "2025-01-31"
    /\ out_heatmap_data[2].date = "2025-02-01"

\* the sum of the count fields of a heatmap
RECURSIVE HeatmapTotal(_)
HeatmapTotal(heatmap_data) ==
    IF heatmap_data = <<>> THEN 0
    ELSE Head(heatmap_data).count + HeatmapTotal(Tail(heatmap_data))

\* the step that merges the bucket collect_github_commits returned
MergeGitHubStep ==
    (main_pc = "in_github" /\ gh_pc = "returned") =>
        BucketSize(all_commits') = BucketSize(all_commits) + BucketSize(gh_daily)

\* the step that merges the bucket collect_gitlab_commits returned
MergeGitLabStep ==
    (main_pc = "in_gitlab" /\ gl_pc = "returned") =>
        BucketSize(all_commits') = BucketSize(all_commits) + BucketSize(gl_result)

\* C18: records are conserved: the total collect_github_commits reports is the
\* number of records of the bucket it returns, whatever the order in which
\* the workers completed; a person's bucket starts empty and grows by exactly
\* the records of each collector's bucket; and the counts of the heatmap made
\* from it add up to the number of its records.
C18_RecordsConserved ==
    /\ [](/\ gh_pc = "returned" => total_commits = BucketSize(gh_daily)
          /\ main_pc = "github" => all_commits = EmptyBucket
          /\ main_pc = "check" =>
                HeatmapTotal(convert_to_heatmap(all_commits)) = BucketSize(all_commits))
    /\ [][MergeGitHubStep /\ MergeGitLabStep]_vars

\* a person's bucket holds records of both collectors on one day, two of them
\* from repositories whose workers could complete in either order
C18_Witness ==
    /\ main_pc = "check"
    /\ \E d \in DOMAIN all_commits :
          /\ \E i \in 1..Len(all_commits[d]) : all_commits[d][i].source = "gitlab"
          /\ Cardinality({i \in 1..Len(all_commits[d]) :
                             all_commits[d][i].source = "github"}) = 2
    /\ HeatmapTotal(convert_to_heatmap(all_commits)) >= 3

\* C19: every entry convert_to_heatmap emits has a count of at least 1 and a
\* level among 1, 2, 3, 4, and every entry whose count is the highest daily
\* count has level 4.
C19_LevelsOfActiveDays ==
    pure_pc = "returned_heatmap" =>
        \A i \in 1..Len(out_heatmap_data) :
            /\ out_heatmap_data[i].count >= 1
            /\ out_heatmap_data[i].level \in {1, 2, 3, 4}
            /\ (\A j \in 1..Len(out_heatmap_data) :
                    out_heatmap_data[j].count <= out_heatmap_data[i].count)
                  => out_heatmap_data[i].level = 4

\* a day of one record beside a day of three: levels 2 and 4
C19_Witness ==
    /\ pure_pc = "returned_heatmap"
    /\ Len(out_heatmap_data) = 2
    /\ out_heatmap_data[1].count = 1 /\ out_heatmap_data[1].level = 2
    /\ out_heatmap_data[2].count = 3 /\ out_heatmap_data[2].level = 4

\* every date key of a bucket holds at least one record
NonEmptyKeys(daily) == \A d \in DOMAIN daily : daily[d] # <<>>

\* the step main takes from the test of the merged bucket: the person is
\* passed over exactly when the bucket holds no record
CheckStep ==
    main_pc = "check" =>
        ((log' = Append(log, Logged("no_data", USERS[user_i].name)))
            <=> BucketSize(all_commits) = 0)

\* a merge leaves the person's bucket without records exactly when it had none
\* and the collector returned none
MergeStep ==
    /\ (main_pc = "in_github" /\ gh_pc = "returned") =>
          (DOMAIN all_commits' = {} <=> (DOMAIN all_commits = {} /\ BucketSize(gh_daily) = 0))
    /\ (main_pc = "in_gitlab" /\ gl_pc = "returned") =>
          (DOMAIN all_commits' = {} <=> (DOMAIN all_commits = {} /\ BucketSize(gl_result) = 0))

\* C20: every date key of the buckets of the three collectors and of the
\* merged bucket of a person holds a non-empty record list, and a person is
\* passed over as having no data exactly when both collectors returned no
\* record.
C20_BucketKeysNonEmpty ==
    /\ [](/\ NonEmptyKeys(gh_daily)
          /\ NonEmptyKeys(gl_daily) /\ NonEmptyKeys(gl_result)
          /\ NonEmptyKeys(lg_daily) /\ NonEmptyKeys(lg_result)
          /\ NonEmptyKeys(all_commits))
    /\ [][CheckStep /\ MergeStep]_vars

\* a push event of the group with commit_count 0 went through the loop and
\* left no key: the collector returns an empty bucket to a person who has no
\* GitHub record either
C20_Witness ==
    /\ main_pc = "in_gitlab"
    /\ gl_pc = "returned"
    /\ raised_at = "none"
    /\ \E i \in 1..Len(events_done) :
          /\ events_done[i].push_data = Count(0)
          /\ events_done[i].created_at.iso
          /\ InWindow(ParseDate(events_done[i].created_at))
          /\ \E p \in 1..Len(projects) : projects[p].id = events_done[i].project_id
    /\ DOMAIN gl_result = {}
    /\ DOMAIN all_commits = {}

====
